---- MODULE Spec2Model ----
(***************************************************************************)
(* The chunk rendering stage of vx_bevy (src/src/voxel/world/render.rs):   *)
(* prepare_chunks, queue_meshing and mesh_chunks run in that order once a  *)
(* frame, their Commands are applied when the stage ends, and the rest of  *)
(* the frame (chunk loading, edits, update events, the host changing the   *)
(* budget resource) happens between two runs of the stage.                 *)
(***************************************************************************)
EXTENDS Integers, Sequences, FiniteSets, TLC

\* ------------------------------------------------------------- bounds
NumChunks == 3
MaxEvents == 2

\* ---------------------------------------------------------- constants
\* meshes_per_frame as inserted by VoxelWorldRenderingPlugin::build.
DefaultBudget == 16

\* Chunk coordinates; a chunk entity is named after its coordinate
\* (ChunkEntities maps a coordinate to at most one entity).
Coords == 1..NumChunks

\* Threads of the compute task pool on which a system may be run.
Threads == {"t1", "t2"}
NoThread == "none"

\* The contents a chunk's voxel buffer can have.
Buffers == {0, 1}

\* Positive budgets the host may write into the resource at runtime.
Budgets == (1..(NumChunks - 1)) \cup {DefaultBudget}

\* shape::Box::new(16.0, 16.0, 16.0).into(), the placeholder mesh.
BoxMesh == <<"box", 16>>

\* mesh_buffer(buffer, ..., &mut mesh, 1.0): the mesh generated from a buffer.
mesh_buffer(buffer) == <<"greedy", buffer>>

VARIABLES
    chunkEntities,  \* ChunkEntities / entities with a Chunk component
    added,          \* entities that Added<Chunk> still matches
    voxelMap,       \* VoxelMap: coordinate -> buffer, for the loaded chunks
    needsMeshing,   \* entities carrying the NeedsMeshing marker
    meshHandle,     \* entity -> Handle<Mesh>, for the entities that have one
    meshes,         \* Assets<Mesh>: handle -> mesh
    events,         \* ChunkUpdateEvents queue_meshing has not read yet
    budget,         \* WorldChunksMeshingFrameBudget.meshes_per_frame
    configured,     \* whether the host wrote the budget after build()
    pc,             \* where the frame is
    cmdsPrepare,    \* Commands queued by prepare_chunks
    cmdsQueue,      \* Commands queued by queue_meshing
    cmdsMesh,       \* Commands queued by mesh_chunks
    units,          \* the futures spawned by mesh_chunks, in spawn order
    thread,         \* the thread mesh_chunks runs on this frame
    created,        \* thread -> MeshBuffers constructed for its thread-local
    borrowed,       \* threads whose RefCell<MeshBuffers> is mutably borrowed
    panic,          \* "none", or why the frame panicked
    prepared,       \* history: the entities prepare_chunks saw this frame
    tickDirty,      \* history: the marked entities mesh_chunks iterated over
    applied,        \* history: entities whose mesh asset was replaced this frame
    handled,        \* history: the events queue_meshing read this frame
    envOn           \* the rest of the program still adds chunks and sends events

vars == <<chunkEntities, added, voxelMap, needsMeshing, meshHandle, meshes,
          events, budget, configured, pc, cmdsPrepare, cmdsQueue, cmdsMesh,
          units, thread, created, borrowed, panic, prepared, tickDirty,
          applied, handled, envOn>>

world == <<chunkEntities, added, voxelMap, needsMeshing, meshHandle, meshes>>
queues == <<cmdsPrepare, cmdsQueue, cmdsMesh>>
pool == <<units, thread, created, borrowed>>
history == <<prepared, tickDirty, applied, handled>>

\* ------------------------------------------------------------ helpers
Min(a, b) == IF a < b THEN a ELSE b

Range(s) == {s[i] : i \in 1..Len(s)}

\* The orders in which a query may yield the entities of S: the order is
\* that of the ECS tables, which the systems do not control.
QueryOrders(S) ==
    {q \in [1..Cardinality(S) -> S] :
        \A i, j \in 1..Cardinality(S) : q[i] = q[j] => i = j}

\* Mutant: the lookup finds an entity for every coordinate.
HasEntityAlways(coord) == TRUE

\* chunk_entities.entity(coord) is Some.
HasEntity(coord) == coord \in chunkEntities

\* chunks.buffer_at(coord) is Some.
HasBuffer(coord) == coord \in DOMAIN voxelMap

\* ----------------------------------------------------------- commands
InsertBundle(e, h) == [op |-> "insert_bundle", entity |-> e, mesh |-> h]
InsertNeedsMeshing(e) == [op |-> "insert", entity |-> e, mesh |-> 0]
RemoveNeedsMeshing(e) == [op |-> "remove", entity |-> e, mesh |-> 0]

\* Mutant: an insert that flips the marker instead of setting it.
InsertMarkerToggle(marked, e) ==
    IF e \in marked THEN marked \ {e} ELSE marked \cup {e}

\* insert(NeedsMeshing) on an entity: the marker is there afterwards.
InsertMarker(marked, e) == marked \cup {e}

\* Mutant: a remove that takes the marker off every entity.
RemoveMarkerAll(marked, e) == {}

\* remove::<NeedsMeshing>() on an entity.
RemoveMarker(marked, e) == marked \ {e}

\* One command applied to the world's components w = [needs, handle].
ApplyCommand(w, c) ==
    CASE c.op = "insert_bundle" ->
            [w EXCEPT !.handle = (c.entity :> c.mesh) @@ w.handle]
      [] c.op = "insert" ->
            [w EXCEPT !.needs = InsertMarker(w.needs, c.entity)]
      [] c.op = "remove" ->
            [w EXCEPT !.needs = RemoveMarker(w.needs, c.entity)]

\* A system's command queue applied in the order it was filled.
RECURSIVE ApplyQueue(_, _)
ApplyQueue(w, q) ==
    IF q = <<>> THEN w ELSE ApplyQueue(ApplyCommand(w, Head(q)), Tail(q))

\* The order in which the stage applies its systems' queues: the order of
\* the systems, Prepare, then QueueMeshing, then MeshChunks.
StageQueues(p, q, m) == p \o q \o m

\* --------------------------------------------------------------- Init
Init ==
    /\ chunkEntities = {}
    /\ added = {}
    /\ voxelMap = <<>>
    /\ needsMeshing = {}
    /\ meshHandle = <<>>
    /\ meshes = <<>>
    /\ events = <<>>
    /\ budget = DefaultBudget
    /\ configured = FALSE
    /\ pc = "frame"
    /\ cmdsPrepare = <<>>
    /\ cmdsQueue = <<>>
    /\ cmdsMesh = <<>>
    /\ units = <<>>
    /\ thread = NoThread
    /\ created = [t \in Threads |-> 0]
    /\ borrowed = {}
    /\ panic = "none"
    /\ prepared = {}
    /\ tickDirty = {}
    /\ applied = {}
    /\ handled = <<>>
    /\ envOn = TRUE

\* ---------------------------------------------- the rest of the frame
\* A chunk is loaded: its buffer is put in the map and its entity spawned
\* with a Chunk component.
AddChunk(c) ==
    /\ pc = "frame" /\ envOn
    /\ c \notin chunkEntities
    /\ \E b \in Buffers : voxelMap' = (c :> b) @@ voxelMap
    /\ chunkEntities' = chunkEntities \cup {c}
    /\ added' = added \cup {c}
    /\ UNCHANGED <<needsMeshing, meshHandle, meshes, events, budget,
                   configured, pc, queues, pool, panic, history, envOn>>

\* A loaded chunk's buffer is changed and a ChunkUpdateEvent sent for it.
EditChunk(c) ==
    /\ pc = "frame" /\ envOn
    /\ HasBuffer(c)
    /\ Len(events) < MaxEvents
    /\ \E b \in Buffers \ {voxelMap[c]} :
          voxelMap' = [voxelMap EXCEPT ![c] = b]
    /\ events' = Append(events, c)
    /\ UNCHANGED <<chunkEntities, added, needsMeshing, meshHandle, meshes,
                   budget, configured, pc, queues, pool, panic, history,
                   envOn>>

\* A ChunkUpdateEvent is sent for a coordinate, loaded or not.
SendUpdate(c) ==
    /\ pc = "frame" /\ envOn
    /\ Len(events) < MaxEvents
    /\ events' = Append(events, c)
    /\ UNCHANGED <<world, budget, configured, pc, queues, pool, panic,
                   history, envOn>>

\* The host overwrites the pub field meshes_per_frame of the resource.
WriteBudget(b) ==
    /\ pc = "frame"
    /\ b # budget
    /\ budget' = b
    /\ configured' = TRUE
    /\ UNCHANGED <<world, events, pc, queues, pool, panic, history, envOn>>

SetBudget == \E b \in Budgets : WriteBudget(b)

\* --------------------------------------------------- prepare_chunks
\* Assets::add hands out a handle that is not in use. The model names it
\* after the entity it is made for: prepare_chunks sees an entity once.
NewHandle(assets, e) == e

\* Mutant: the loop stops after the first entity the query yields.
PrepareLoopFirst(st, es) ==
    IF es = <<>> THEN st
    ELSE LET e == Head(es)
             h == NewHandle(st.meshes, e)
         IN [meshes |-> (h :> BoxMesh) @@ st.meshes,
             cmds |-> st.cmds \o <<InsertBundle(e, h),
                                    InsertNeedsMeshing(e)>>]

\* The loop of prepare_chunks over the entities Added<Chunk> matches:
\* st = [meshes, cmds].
RECURSIVE PrepareLoop(_, _)
PrepareLoop(st, es) ==
    IF es = <<>> THEN st
    ELSE LET e == Head(es)
             h == NewHandle(st.meshes, e)
         IN PrepareLoop(
                [meshes |-> (h :> BoxMesh) @@ st.meshes,
                 cmds |-> st.cmds \o <<InsertBundle(e, h),
                                        InsertNeedsMeshing(e)>>],
                Tail(es))

prepare_chunks ==
    /\ pc = "frame"
    /\ \E es \in QueryOrders(added) :
          LET st == PrepareLoop([meshes |-> meshes, cmds |-> <<>>], es)
          IN /\ meshes' = st.meshes
             /\ cmdsPrepare' = st.cmds
    /\ prepared' = added
    /\ added' = {}
    /\ pc' = "queue"
    /\ UNCHANGED <<chunkEntities, voxelMap, needsMeshing, meshHandle, events,
                   budget, configured, cmdsQueue, cmdsMesh, pool, panic,
                   tickDirty, applied, handled, envOn>>

\* ---------------------------------------------------- queue_meshing
\* Mutant: the loop stops after the first event read.
QueueLoopFirst(cmds, evs) ==
    IF evs = <<>> THEN cmds
    ELSE IF HasEntity(Head(evs))
         THEN Append(cmds, InsertNeedsMeshing(Head(evs)))
         ELSE cmds

\* The loop of queue_meshing over the events read: an insert is queued for
\* every event whose coordinate has an entity.
RECURSIVE QueueLoop(_, _)
QueueLoop(cmds, evs) ==
    IF evs = <<>> THEN cmds
    ELSE QueueLoop(
             IF HasEntity(Head(evs))
             THEN Append(cmds, InsertNeedsMeshing(Head(evs)))
             ELSE cmds,
             Tail(evs))

queue_meshing ==
    /\ pc = "queue"
    /\ cmdsQueue' = QueueLoop(<<>>, events)
    /\ handled' = events
    /\ events' = <<>>
    /\ pc' = "mesh"
    /\ UNCHANGED <<world, budget, configured, cmdsPrepare, cmdsMesh, pool,
                   panic, prepared, tickDirty, applied, envOn>>

\* ------------------------------------------------------ mesh_chunks
\* Mutant: q0 without its With<NeedsMeshing> filter.
RenderedChunks == chunkEntities \cap DOMAIN meshHandle

\* The entities query q0 matches: a Chunk component and a NeedsMeshing marker.
DirtyChunks == chunkEntities \cap needsMeshing

\* Mutant: take(meshes_per_frame + 1).
SelectionsOffByOne(dirty, n) ==
    {S \in SUBSET dirty : Cardinality(S) = Min(n + 1, Cardinality(dirty))}

\* chunk_query.q0().iter().take(meshes_per_frame): the first meshes_per_frame
\* entities of the query, or all of them when there are fewer. The query's
\* order is the ECS's, so any subset of that size can be the one taken.
Selections(dirty, n) ==
    {S \in SUBSET dirty : Cardinality(S) = Min(n, Cardinality(dirty))}

\* Mutant: every future is given the buffer of the first loaded chunk.
UnitFirstBuffer(e) ==
    [entity |-> e,
     buffer |-> voxelMap[CHOOSE c \in DOMAIN voxelMap :
                             \A d \in DOMAIN voxelMap : c <= d],
     state |-> "spawned", mesh |-> <<"new", 0>>]

\* The future spawned for one selected entity, before it is polled.
Unit(e) ==
    [entity |-> e, buffer |-> voxelMap[e], state |-> "spawned",
     mesh |-> <<"new", 0>>]

\* The closure given to task_pool.scope: take, unwrap the buffers, and
\* spawn_local one future per entity on the thread that runs the system.
mesh_chunks_spawn ==
    /\ pc = "mesh"
    /\ \E S \in Selections(DirtyChunks, budget), t \in Threads :
       \E es \in QueryOrders(S) :
          /\ tickDirty' = DirtyChunks
          /\ thread' = t
          /\ IF \A e \in S : HasBuffer(e)
             THEN /\ units' = [i \in 1..Len(es) |-> Unit(es[i])]
                  /\ pc' = "units"
                  /\ panic' = panic
             ELSE /\ units' = units
                  /\ pc' = "panicked"
                  /\ panic' = "unwrap_none"
    /\ UNCHANGED <<world, events, budget, configured, queues, created,
                   borrowed, prepared, applied, handled, envOn>>

\* TaskPool::scope of bevy_tasks 0.6, called at render.rs:72: having
\* spawned two or more futures it ticks the pool's executor and the
\* thread's local executor until all have completed; having spawned exactly
\* one it blocks on that task without ticking the local executor, the only
\* one that can poll a future spawned with spawn_local.
ScopeTicksLocal == Len(units) >= 2

\* The local executor, when the scope ticks it, polls the futures in the
\* order they were spawned.
NextToPoll(i) ==
    /\ ScopeTicksLocal
    /\ units[i].state = "spawned"
    /\ \A j \in 1..(i - 1) : units[j].state # "spawned"

\* scope.spawn_local: every future is run by the local executor of the
\* thread that runs mesh_chunks.
UnitThread(i) == thread

\* Mutant: a future is polled while another is suspended holding its borrow.
ExecutorAlwaysFree(i) == TRUE

\* A future is polled only when its thread's executor is running no other:
\* the futures have no await, so a poll runs one to its end.
ExecutorFree(i) ==
    \A j \in 1..Len(units) :
        units[j].state = "running" => UnitThread(j) # UnitThread(i)

\* Mutant: a MeshBuffers is constructed for every future.
get_or_always(n) == n + 1

\* ThreadLocal::get_or: the closure constructs a MeshBuffers only when the
\* thread has none; n counts the thread's constructions.
get_or(n) == IF n = 0 THEN 1 ELSE n

\* A future starts: Mesh::new, get_or on the thread-local, borrow_mut. A
\* lone future is never polled: the scope stays blocked on it and mesh_chunks
\* does not return.
mesh_unit_begin(i) ==
    /\ pc = "units"
    /\ ScopeTicksLocal
    /\ NextToPoll(i)
    /\ ExecutorFree(i)
    /\ created' = [created EXCEPT ![UnitThread(i)] = get_or(@)]
    /\ IF UnitThread(i) \in borrowed
       THEN /\ pc' = "panicked"
            /\ panic' = "already_borrowed"
            /\ UNCHANGED <<units, borrowed>>
       ELSE /\ borrowed' = borrowed \cup {UnitThread(i)}
            /\ units' = [units EXCEPT ![i].state = "running"]
            /\ UNCHANGED <<pc, panic>>
    /\ UNCHANGED <<world, events, budget, configured, queues, thread,
                   history, envOn>>

\* A future ends: mesh_buffer fills the mesh, the borrow is dropped and
\* (entity, mesh) is the future's output.
mesh_unit_end(i) ==
    /\ pc = "units"
    /\ units[i].state = "running"
    /\ units' = [units EXCEPT ![i].state = "done",
                              ![i].mesh = mesh_buffer(units[i].buffer)]
    /\ borrowed' = borrowed \ {UnitThread(i)}
    /\ UNCHANGED <<world, events, budget, configured, pc, queues, thread,
                   created, panic, history, envOn>>

\* chunk_query.q1().get(entity) is Ok: a Handle<Mesh> and a NeedsMeshing marker.
HasMeshHandle(e) == e \in DOMAIN meshHandle /\ e \in needsMeshing

\* Mutant: the loop queues the removal without writing the mesh asset.
RECURSIVE ApplyLoopNoWrite(_, _)
ApplyLoopNoWrite(st, us) ==
    IF us = <<>> THEN st
    ELSE ApplyLoopNoWrite(
             [st EXCEPT !.cmds = Append(st.cmds,
                                        RemoveNeedsMeshing(Head(us).entity)),
                        !.applied = st.applied \cup {Head(us).entity}],
             Tail(us))

\* The loop over generated_meshes: st = [meshes, cmds, applied, panic].
RECURSIVE ApplyLoop(_, _)
ApplyLoop(st, us) ==
    IF us = <<>> \/ st.panic # "none" THEN st
    ELSE LET e == Head(us).entity
         IN IF ~HasMeshHandle(e)
            THEN [st EXCEPT !.panic = "unwrap_no_handle"]
            ELSE IF meshHandle[e] \notin DOMAIN st.meshes
            THEN [st EXCEPT !.panic = "unwrap_no_asset"]
            ELSE ApplyLoop(
                     [meshes |-> [st.meshes EXCEPT ![meshHandle[e]] = Head(us).mesh],
                      cmds |-> Append(st.cmds, RemoveNeedsMeshing(e)),
                      applied |-> st.applied \cup {e},
                      panic |-> st.panic],
                     Tail(us))

\* Mutant: the scope returns without waiting for its futures.
ScopeReturnsEarly == TRUE

\* task_pool.scope returns once every spawned future has completed.
AllUnitsDone == \A j \in 1..Len(units) : units[j].state = "done"

mesh_chunks_apply ==
    /\ pc = "units"
    /\ AllUnitsDone
    /\ LET st == ApplyLoop([meshes |-> meshes, cmds |-> <<>>,
                            applied |-> {}, panic |-> "none"], units)
       IN /\ meshes' = st.meshes
          /\ cmdsMesh' = st.cmds
          /\ applied' = st.applied
          /\ panic' = st.panic
          /\ pc' = IF st.panic = "none" THEN "buffers" ELSE "panicked"
    /\ UNCHANGED <<chunkEntities, added, voxelMap, needsMeshing, meshHandle,
                   events, budget, configured, cmdsPrepare, cmdsQueue, pool,
                   prepared, tickDirty, handled, envOn>>

\* ------------------------------------------------- the end of the stage
\* The stage applies the systems' command queues once all three have run.
apply_buffers ==
    /\ pc = "buffers"
    /\ LET w == ApplyQueue([needs |-> needsMeshing, handle |-> meshHandle],
                           StageQueues(cmdsPrepare, cmdsQueue, cmdsMesh))
       IN /\ needsMeshing' = w.needs
          /\ meshHandle' = w.handle
    /\ cmdsPrepare' = <<>>
    /\ cmdsQueue' = <<>>
    /\ cmdsMesh' = <<>>
    /\ pc' = "end"
    /\ UNCHANGED <<chunkEntities, added, voxelMap, meshes, events, budget,
                   configured, pool, panic, history, envOn>>

\* The stage is over and the next frame begins; the history of the frame
\* and its completed futures are dropped.
next_frame ==
    /\ pc = "end"
    /\ pc' = "frame"
    /\ units' = <<>>
    /\ thread' = NoThread
    /\ prepared' = {}
    /\ tickDirty' = {}
    /\ applied' = {}
    /\ handled' = <<>>
    /\ UNCHANGED <<world, events, budget, configured, queues, created,
                   borrowed, panic, envOn>>

\* ------------------------------------------------------------ the stage
Environment ==
    \/ \E c \in Coords : AddChunk(c)
    \/ \E c \in Coords : EditChunk(c)
    \/ \E c \in Coords : SendUpdate(c)
    \/ SetBudget

Stage ==
    \/ prepare_chunks
    \/ queue_meshing
    \/ mesh_chunks_spawn
    \/ \E i \in 1..Len(units) : mesh_unit_begin(i)
    \/ \E i \in 1..Len(units) : mesh_unit_end(i)
    \/ mesh_chunks_apply
    \/ apply_buffers
    \/ next_frame

Next == Environment \/ Stage

\* The program with a host that keeps the budget positive and a loader that
\* keeps the buffer of every chunk entity in the map.
Spec == Init /\ [][Next]_vars

\* ------------------------------------------------------------- misuse
\* The buffer of a chunk is removed from the map while its entity stays.
UnloadBuffer(c) ==
    /\ pc = "frame" /\ envOn
    /\ HasBuffer(c)
    /\ voxelMap' = [k \in DOMAIN voxelMap \ {c} |-> voxelMap[k]]
    /\ UNCHANGED <<chunkEntities, added, needsMeshing, meshHandle, meshes,
                   events, budget, configured, pc, queues, pool, panic,
                   history, envOn>>

\* The host writes a budget of zero into the resource.
ZeroBudget == WriteBudget(0)

Misuse ==
    \/ \E c \in Coords : UnloadBuffer(c)
    \/ ZeroBudget

NextFault == Next \/ Misuse

\* The program with a host that may also write a zero budget and a loader
\* that may also drop a buffer whose chunk entity is still there.
SpecFault == Init /\ [][NextFault]_vars

\* ----------------------------------------------------------- fairness
\* From here on no chunk is added or edited and no update event is sent.
StopEnvironment ==
    /\ pc = "frame" /\ envOn
    /\ envOn' = FALSE
    /\ UNCHANGED <<world, events, budget, configured, pc, queues, pool,
                   panic, history>>

NextFair == Next \/ StopEnvironment

\* The schedule runs the stage every frame, and a stage that has started
\* takes every step it can: a scope blocked on a lone future has none.
SpecFair == Init /\ [][NextFair]_vars /\ WF_vars(Stage)

\* ------------------------------------------------------------- claims
\* The entities mesh_chunks spawned a future for this frame.
Selected == {units[i].entity : i \in 1..Len(units)}

\* The coordinates of the events queue_meshing read this frame.
Notified == Range(handled)

\* How often a coordinate occurs among the events read this frame.
Notifications(c) == Cardinality({i \in 1..Len(handled) : handled[i] = c})

\* C1: when a frame starts with N marked chunks and the budget B is below
\* N, the run of mesh_chunks comes to its end, the frame applies exactly B
\* meshes, and N-B of those chunks are still marked when the stage has
\* ended.
BudgetConservation ==
    /\ (pc = "units" /\ budget < Cardinality(tickDirty)) => ENABLED Stage
    /\ (pc = "end" /\ budget < Cardinality(tickDirty))
          => /\ Cardinality(applied) = budget
             /\ Cardinality(tickDirty \cap needsMeshing)
                    = Cardinality(tickDirty) - budget

\* C2: a chunk for which queue_meshing handled an update event in the
\* frame in which mesh_chunks meshed it is still marked when the stage has
\* ended.
RemarkedStaysDirty ==
    pc = "end" => \A e \in applied \cap Notified : e \in needsMeshing

\* C3: a selected chunk whose buffer is not in the map does not make the
\* frame fail.
MissingBufferSkipped == ~(pc = "panicked" /\ panic = "unwrap_none")

\* C4: no frame runs with a budget of zero, meshing nothing while chunks
\* stay marked.
NoZeroBudgetFrame ==
    ~(pc = "end" /\ budget = 0 /\ tickDirty # {} /\ applied = {}
        /\ tickDirty \subseteq needsMeshing)

\* Every chunk entity has its mesh asset, generated from its current buffer,
\* and no chunk is marked or waiting for prepare_chunks.
Converged ==
    /\ needsMeshing = {}
    /\ added = {}
    /\ \A e \in chunkEntities :
          /\ e \in DOMAIN meshHandle
          /\ meshHandle[e] \in DOMAIN meshes
          /\ meshes[meshHandle[e]] = mesh_buffer(voxelMap[e])

\* C5: once no more chunks are added or edited and no more events sent,
\* the frames that follow lead to a state, kept from then on, in which no
\* chunk is marked and every chunk's mesh is the one of its current buffer.
Convergence == (~envOn) ~> []Converged

\* C6: the marks a frame leaves depend only on which coordinates were
\* notified, not on how often: what is marked after the stage is what was
\* marked or prepared or notified once or more, less what was meshed; and
\* no entity is given two futures in one frame.
UpdateIdempotent ==
    /\ pc = "end" =>
          needsMeshing =
              (tickDirty \cup prepared \cup (Notified \cap chunkEntities))
                  \ applied
    /\ \A i, j \in 1..Len(units) :
          units[i].entity = units[j].entity => i = j

UpdateIdempotentWitness ==
    /\ pc = "end"
    /\ \E c \in chunkEntities :
          /\ Notifications(c) >= 2
          /\ c \notin tickDirty
          /\ c \in needsMeshing

\* The mesh asset of e holds the mesh a future of this frame generated
\* from e's buffer.
FreshlyMeshed(e) ==
    /\ e \in applied
    /\ e \in DOMAIN meshHandle
    /\ meshHandle[e] \in DOMAIN meshes
    /\ \E j \in 1..Len(units) :
          /\ units[j].entity = e
          /\ units[j].state = "done"
          /\ units[j].mesh = mesh_buffer(units[j].buffer)
          /\ meshes[meshHandle[e]] = units[j].mesh

\* C7: mesh_chunks queues the removal of the marker only for an entity
\* whose mesh asset it has replaced by a mesh generated this frame, and the
\* stage takes the marker off no other entity.
RemovedOnlyAfterApplied ==
    /\ \A i \in 1..Len(cmdsMesh) :
          cmdsMesh[i].op = "remove" => FreshlyMeshed(cmdsMesh[i].entity)
    /\ pc = "end" => \A e \in tickDirty \ needsMeshing : FreshlyMeshed(e)

RemovedOnlyAfterAppliedWitness ==
    /\ pc = "buffers"
    /\ cmdsMesh # <<>>
    /\ tickDirty \ applied # {}

\* C8: the budget is 16 until the host writes it, and a frame spawns and
\* applies at most as many meshes as the budget is when the frame runs.
BudgetBoundsFrame ==
    /\ ~configured => budget = DefaultBudget
    /\ pc \in {"units", "buffers", "end"} =>
          /\ Len(units) <= budget
          /\ Cardinality(applied) <= budget

BudgetBoundsFrameWitness ==
    /\ configured
    /\ pc = "units"
    /\ ScopeTicksLocal
    /\ Len(units) = budget
    /\ Cardinality(tickDirty) > budget

\* The meshing state of a chunk: New before it has its rendering
\* components, then Clean, Dirty or InFlight.
MeshState(e) ==
    IF e \notin DOMAIN meshHandle THEN "New"
    ELSE IF e \notin needsMeshing THEN "Clean"
    ELSE IF e \in Selected THEN "InFlight"
    ELSE "Dirty"

AllowedTransitions ==
    {<<"New", "Dirty">>, <<"Clean", "Dirty">>, <<"Dirty", "InFlight">>,
     <<"InFlight", "Clean">>}

\* No future is spawned or running for an entity that is not marked.
NeverMeshedClean ==
    \A i \in 1..Len(units) :
        units[i].state # "done" => units[i].entity \in needsMeshing

\* C9: a chunk's meshing state changes only along New -> Dirty,
\* Clean -> Dirty, Dirty -> InFlight and InFlight -> Clean; no chunk is
\* meshed while Clean; and every entity prepare_chunks saw in a frame is
\* Dirty when that frame's stage has ended.
ChunkStateMachine ==
    [][/\ \A e \in Coords :
             \/ MeshState(e)' = MeshState(e)
             \/ <<MeshState(e), MeshState(e)'>> \in AllowedTransitions
       /\ NeverMeshedClean'
       /\ pc' = "end" => \A e \in prepared' : MeshState(e)' = "Dirty"]_vars

ChunkStateMachineWitness ==
    /\ pc = "end"
    /\ prepared # {}
    /\ \E e \in Selected : MeshState(e) = "Clean"

\* The futures that hold the mutable borrow of the thread's MeshBuffers.
Running == {i \in 1..Len(units) : units[i].state = "running"}

\* C10: at most one future at a time holds the mutable borrow of the
\* thread's MeshBuffers, and no borrow_mut finds it already borrowed.
ScratchNeverShared ==
    /\ panic # "already_borrowed"
    /\ Cardinality(Running) <= 1
    /\ \A i \in Running : UnitThread(i) \in borrowed

ScratchNeverSharedWitness ==
    /\ pc = "units"
    /\ Len(units) >= 2
    /\ units[1].state = "done"
    /\ units[2].state = "running"
    /\ thread \in borrowed

\* The futures of this frame that have not completed.
Pending == {i \in 1..Len(units) : units[i].state # "done"}

\* C11: within a frame no generated mesh is written to a mesh asset and no
\* removal of a marker is queued or applied while a future spawned in that
\* frame has not completed, and no future is left uncompleted when the
\* scope has returned, so none is in flight in two frames.
JoinBarrier ==
    /\ (applied # {} \/ cmdsMesh # <<>>) => Pending = {}
    /\ pc # "units" => Pending = {}
    /\ Pending # {} => \A i \in 1..Len(units) : units[i].entity \in needsMeshing
    /\ pc \in {"frame", "queue", "mesh"} => units = <<>>

JoinBarrierWitness ==
    /\ pc = "buffers"
    /\ Len(units) >= 2
    /\ applied = Selected
    /\ Len(cmdsMesh) = Len(units)

\* C12: when a frame has spawned two or more futures, a second one can
\* start while another is running, on another thread.
UnitsRunInParallel ==
    \A i \in Running :
        (\E j \in 1..Len(units) : units[j].state = "spawned")
            => ENABLED (\E j \in 1..Len(units) :
                            /\ mesh_unit_begin(j)
                            /\ units'[j].state = "running")

\* C13: a frame spawns one future per selected entity and none twice; each
\* future holds the buffer of its own entity as the map has it in that
\* frame; the loop writes to each selected entity's mesh asset the mesh
\* generated from that buffer and queues one removal for it, in the order
\* spawned; and the entity is not marked when the stage has ended.
MeshPairing ==
    /\ \A i, j \in 1..Len(units) :
          units[i].entity = units[j].entity => i = j
    /\ \A i \in 1..Len(units) :
          /\ units[i].entity \in DOMAIN voxelMap
          /\ units[i].buffer = voxelMap[units[i].entity]
    /\ pc = "buffers" =>
          /\ applied = Selected
          /\ cmdsMesh = [i \in 1..Len(units) |->
                             RemoveNeedsMeshing(units[i].entity)]
    /\ pc \in {"buffers", "end"} =>
          \A e \in Selected :
              meshes[meshHandle[e]] = mesh_buffer(voxelMap[e])
    /\ pc = "end" => Selected \cap needsMeshing = {}

MeshPairingWitness ==
    /\ pc = "buffers"
    /\ Len(units) >= 2
    /\ units[1].buffer # units[2].buffer
    /\ meshes[meshHandle[units[1].entity]]
           # meshes[meshHandle[units[2].entity]]

\* C14: mesh_chunks leaves alone every chunk it did not select: spawning,
\* running and applying the futures changes neither the mesh asset nor the
\* marker of such a chunk and queues no command for it, and applying the
\* stage's commands takes the marker off no such chunk and leaves its mesh
\* asset as it was.
UnselectedUntouched ==
    [][/\ pc \in {"mesh", "units"} =>
             \A e \in Coords \ Selected' :
                 /\ (e \in needsMeshing') = (e \in needsMeshing)
                 /\ e \in DOMAIN meshHandle =>
                        /\ e \in DOMAIN meshHandle'
                        /\ meshHandle'[e] = meshHandle[e]
                        /\ meshes'[meshHandle[e]] = meshes[meshHandle[e]]
                 /\ \A i \in 1..Len(cmdsMesh') : cmdsMesh'[i].entity # e
       /\ pc = "buffers" =>
             \A e \in Coords \ Selected :
                 /\ e \in needsMeshing => e \in needsMeshing'
                 /\ e \in DOMAIN meshHandle =>
                        meshes'[meshHandle[e]] = meshes[meshHandle[e]]]_vars

UnselectedUntouchedWitness ==
    /\ pc = "end"
    /\ applied # {}
    /\ \E e \in tickDirty \ Selected :
          /\ e \in needsMeshing
          /\ meshes[meshHandle[e]] = BoxMesh

\* C15: a thread's MeshBuffers is never dropped and is constructed at most
\* once: a step constructs one only for the thread that runs the futures,
\* only when that thread has none, and every running future has one.
ScratchCreatedOnce ==
    [][/\ \A t \in Threads :
             /\ created'[t] >= created[t]
             /\ created'[t] <= 1
             /\ created'[t] # created[t] =>
                    /\ created[t] = 0
                    /\ pc = "units"
                    /\ t = thread
       /\ \A i \in Running' : created'[thread'] = 1]_vars

ScratchCreatedOnceWitness ==
    /\ pc = "units"
    /\ \A t \in Threads : created[t] = 1
    /\ Len(units) >= 2
    /\ units[1].state = "done"
    /\ units[2].state = "running"

\* C16: when the stage of a frame has ended, every chunk entity that has
\* its rendering components and is not marked has the mesh generated from
\* the buffer the map holds for it now.
NoStaleClean ==
    pc = "end" =>
        \A e \in chunkEntities :
            /\ e \in DOMAIN meshHandle
            /\ e \notin needsMeshing =>
                   meshes[meshHandle[e]] = mesh_buffer(voxelMap[e])

NoStaleCleanWitness ==
    /\ pc = "end"
    /\ \E e \in chunkEntities \ (tickDirty \cup prepared) :
          /\ e \in Notified
          /\ e \in needsMeshing
          /\ meshes[meshHandle[e]] \in {mesh_buffer(b) : b \in Buffers}
          /\ meshes[meshHandle[e]] # mesh_buffer(voxelMap[e])
    /\ \E e \in chunkEntities :
          /\ e \notin needsMeshing
          /\ meshes[meshHandle[e]] = mesh_buffer(voxelMap[e])

\* C17: every marked entity has a mesh handle, and the handle names a mesh
\* asset, so that neither lookup of the loop over the generated meshes
\* fails; also when an update event for a chunk is read in the frame in
\* which prepare_chunks first sees it.
SelectedHasMesh ==
    /\ \A e \in needsMeshing :
          /\ e \in DOMAIN meshHandle
          /\ meshHandle[e] \in DOMAIN meshes
    /\ \A e \in Selected : HasMeshHandle(e) \/ pc \in {"end", "panicked"}
    /\ panic \notin {"unwrap_no_handle", "unwrap_no_asset"}

SelectedHasMeshWitness ==
    /\ pc = "end"
    /\ \E e \in prepared \cap Notified :
          /\ e \in needsMeshing
          /\ meshHandle[e] \in DOMAIN meshes
    /\ applied # {}

\* The events read this frame whose coordinate has a chunk entity.
KnownUpdates == {i \in 1..Len(handled) : handled[i] \in chunkEntities}

\* C18: an update event whose coordinate has no chunk entity has no
\* effect: queue_meshing queues inserts for the other events only, no
\* such coordinate is ever marked, a frame whose events all are of this
\* kind leaves the marks it would leave without them, and queue_meshing
\* does not fail.
UnknownUpdateIgnored ==
    /\ \A i \in 1..Len(cmdsQueue) :
          /\ cmdsQueue[i].op = "insert"
          /\ cmdsQueue[i].entity \in chunkEntities \cap Notified
    /\ pc = "mesh" =>
          /\ Len(cmdsQueue) = Cardinality(KnownUpdates)
          /\ panic = "none"
    /\ needsMeshing \subseteq chunkEntities
    /\ (pc = "end" /\ KnownUpdates = {}) =>
          needsMeshing = (tickDirty \cup prepared) \ applied

UnknownUpdateIgnoredWitness ==
    /\ pc = "mesh"
    /\ Notified \ chunkEntities # {}
    /\ KnownUpdates = {}
    /\ cmdsQueue = <<>>
    /\ needsMeshing # {}

====
